---- MODULE Spec2Model ----
(***************************************************************************)
(* StreamDeckBase (packages/elgato-stream-deck-core/src/models/base.ts):   *)
(* the device controller, its packet framer and its button tracker.        *)
(*                                                                         *)
(* JavaScript runs one callback at a time, so every action below is one    *)
(* synchronous stretch of code: from the call of a public method (or the   *)
(* settling of the promise it awaits) up to the next await.                *)
(***************************************************************************)
EXTENDS Integers, Sequences, FiniteSets, TLC

\* ---------------------------------------------------------------- bounds
\* longest encoded image the encoder returns, in bytes
MaxEncLen == 4
\* largest payload capacity of a packet (packet length - header length)
MaxPayload == 2
\* length of a long encoded image, in bytes: more than 256 packets
LongEncLen == 257

\* ------------------------------------------------------- device variants
\* StreamDeckProperties a concrete model hands to the constructor
Devices ==
    { [COLUMNS |-> 2, ROWS |-> 2, ICON_SIZE |-> 1, KEY_DIRECTION |-> "ltr"],
      [COLUMNS |-> 2, ROWS |-> 2, ICON_SIZE |-> 1, KEY_DIRECTION |-> "rtl"],
      [COLUMNS |-> 3, ROWS |-> 1, ICON_SIZE |-> 2, KEY_DIRECTION |-> "rtl"] }

\* the two independent callers of the public methods
Callers == {"a", "b"}

VARIABLES
    props,          \* deviceProperties
    packetLength,   \* what getFillImagePacketLength() returns for this model
    encLen,         \* length of the image the model's encoder produces
    keyState,       \* keyState: pressed flag per logical key
    lastData,       \* the raw input report handled last
    events,         \* the events emitted while handling lastData
    tasks,          \* per caller: the public method it called and where it stands
    wire,           \* what the pending methods handed to the transport, in order
    inflight,       \* per caller: transport promises not yet settled
    overlapped      \* a method was called while another caller's was pending

vars == <<props, packetLength, encLen, keyState, lastData, events,
          tasks, wire, inflight, overlapped>>

config == <<props, packetLength, encLen>>
tracker == <<keyState, lastData, events>>
outbound == <<tasks, wire, inflight, overlapped>>

\* ------------------------------------------------------------- getters
KEY_COLUMNS == props.COLUMNS
KEY_ROWS == props.ROWS
NUM_KEYS == KEY_COLUMNS * KEY_ROWS
ICON_SIZE == props.ICON_SIZE
ICON_BYTES == ICON_SIZE * ICON_SIZE * 3

Min(a, b) == IF a < b THEN a ELSE b

\* ------------------------------------------------- the abstract methods
\* transformKeyIndex of the concrete models: identity on a left-to-right
\* model, the column mirrored within its row on a right-to-left one
transformKeyIndex(keyIndex) ==
    IF props.KEY_DIRECTION = "ltr"
    THEN keyIndex
    ELSE LET row == keyIndex \div KEY_COLUMNS
             col == keyIndex % KEY_COLUMNS
         IN  row * KEY_COLUMNS + (KEY_COLUMNS - 1 - col)

\* the square of ICON_SIZE x ICON_SIZE pixels at sourceOffset, rows
\* sourceStride bytes apart
SourceRegion(imageBuffer, sourceOffset, sourceStride) ==
    [n \in 1..ICON_BYTES |->
        LET row == (n - 1) \div (ICON_SIZE * 3)
            col == (n - 1) % (ICON_SIZE * 3)
            pos == sourceOffset + row * sourceStride + col
        IN  IF pos < Len(imageBuffer) THEN imageBuffer[pos + 1] ELSE 0]

\* convertFillImage of the concrete models, when it succeeds: the region
\* in the device's byte order (each pixel's channels reversed), laid out
\* in the encLen bytes the model's image format takes
convertFillImage(imageBuffer, sourceOffset, sourceStride) ==
    LET region == SourceRegion(imageBuffer, sourceOffset, sourceStride)
        native == [n \in 1..ICON_BYTES |->
                    region[3 * ((n - 1) \div 3) + (2 - ((n - 1) % 3)) + 1]]
    IN  [j \in 1..encLen |-> native[((j - 1) % ICON_BYTES) + 1]]

\* ------------------------------------------------------- packet framer
getFillImageCommandHeaderLength == 16

Zeros(n) == [i \in 1..n |-> 0]

\* the header bytes written into a zeroed packet
writeFillImageCommandHeader(keyIndex, partIndex, isLast) ==
    << 2, 1, partIndex % 256, (partIndex \div 256) % 256,
       IF isLast THEN 1 ELSE 0, (keyIndex + 1) % 256 >>
    \o Zeros(getFillImageCommandHeaderLength - 6)

RECURSIVE FillImageWritesLoopStrict(_, _, _, _)
\* the loop flagging the last part with < in place of <=
FillImageWritesLoopStrict(keyIndex, byteBuffer, part, remainingBytes) ==
    LET MAX_PAYLOAD_SIZE == packetLength - getFillImageCommandHeaderLength
        byteCount == Min(remainingBytes, MAX_PAYLOAD_SIZE)
        byteOffset == Len(byteBuffer) - remainingBytes
        packet ==
            writeFillImageCommandHeader(keyIndex, part,
                                        remainingBytes < MAX_PAYLOAD_SIZE)
            \o SubSeq(byteBuffer, byteOffset + 1, byteOffset + byteCount)
            \o Zeros(MAX_PAYLOAD_SIZE - byteCount)
    IN  IF remainingBytes > 0
        THEN <<packet>> \o FillImageWritesLoopStrict(keyIndex, byteBuffer, part + 1,
                                                     remainingBytes - byteCount)
        ELSE << >>

\* the iteration allocating the packet only as long as header and payload
FillImageWritesIterationUnpadded(keyIndex, byteBuffer, part, remainingBytes) ==
    LET MAX_PAYLOAD_SIZE == packetLength - getFillImageCommandHeaderLength
        byteCount == Min(remainingBytes, MAX_PAYLOAD_SIZE)
        byteOffset == Len(byteBuffer) - remainingBytes
        packet ==
            writeFillImageCommandHeader(keyIndex, part,
                                        remainingBytes <= MAX_PAYLOAD_SIZE)
            \o SubSeq(byteBuffer, byteOffset + 1, byteOffset + byteCount)
    IN  [packet |-> packet, remainingBytes |-> remainingBytes - byteCount]

\* one iteration of the for loop of generateFillImageWrites: the packet it
\* pushes and the bytes that remain after it
FillImageWritesIteration(keyIndex, byteBuffer, part, remainingBytes) ==
    LET MAX_PACKET_SIZE == packetLength
        PACKET_HEADER_LENGTH == getFillImageCommandHeaderLength
        MAX_PAYLOAD_SIZE == MAX_PACKET_SIZE - PACKET_HEADER_LENGTH
        byteCount == Min(remainingBytes, MAX_PAYLOAD_SIZE)
        byteOffset == Len(byteBuffer) - remainingBytes
        packet ==
            writeFillImageCommandHeader(keyIndex, part,
                                        remainingBytes <= MAX_PAYLOAD_SIZE)
            \o SubSeq(byteBuffer, byteOffset + 1, byteOffset + byteCount)
            \o Zeros(MAX_PAYLOAD_SIZE - byteCount)
    IN  [packet |-> packet, remainingBytes |-> remainingBytes - byteCount]

RECURSIVE FillImageWritesLoop(_, _, _, _)
\* the for loop of generateFillImageWrites, from part `part` on
FillImageWritesLoop(keyIndex, byteBuffer, part, remainingBytes) ==
    LET iteration == FillImageWritesIteration(keyIndex, byteBuffer, part,
                                              remainingBytes)
    IN  IF remainingBytes > 0
        THEN <<iteration.packet>>
             \o FillImageWritesLoop(keyIndex, byteBuffer, part + 1,
                                    iteration.remainingBytes)
        ELSE << >>

\* generateFillImageWrites starting one byte short
generateFillImageWritesShort(keyIndex, byteBuffer) ==
    FillImageWritesLoop(keyIndex, byteBuffer, 0, Len(byteBuffer) - 1)

generateFillImageWrites(keyIndex, byteBuffer) ==
    FillImageWritesLoop(keyIndex, byteBuffer, 0, Len(byteBuffer))

\* ------------------------------------------------------ button tracker
RECURSIVE InputLoopForgetful(_, _, _, _)
\* the loop emitting the events without recording the new key state
InputLoopForgetful(data, i, state, emitted) ==
    IF i < NUM_KEYS
    THEN LET keyPressed == data[i] # 0
             keyIndex == transformKeyIndex(i)
         IN  IF keyPressed # state[keyIndex]
             THEN InputLoopForgetful(data, i + 1, state,
                                     Append(emitted,
                                            [type |-> IF keyPressed THEN "down"
                                                                    ELSE "up",
                                             keyIndex |-> keyIndex]))
             ELSE InputLoopForgetful(data, i + 1, state, emitted)
    ELSE [keyState |-> state, emitted |-> emitted]

RECURSIVE InputLoopLevelTriggered(_, _, _, _)
\* the loop emitting for every slot what the report says, changed or not
InputLoopLevelTriggered(data, i, state, emitted) ==
    IF i < NUM_KEYS
    THEN LET keyPressed == data[i] # 0
             keyIndex == transformKeyIndex(i)
         IN  InputLoopLevelTriggered(data, i + 1,
                                     [state EXCEPT ![keyIndex] = keyPressed],
                                     Append(emitted,
                                            [type |-> IF keyPressed THEN "down"
                                                                    ELSE "up",
                                             keyIndex |-> keyIndex]))
    ELSE [keyState |-> state, emitted |-> emitted]

RECURSIVE InputLoop(_, _, _, _)
\* the for loop of the 'input' listener from slot i on: the key state and
\* the events emitted so far
InputLoop(data, i, state, emitted) ==
    IF i < NUM_KEYS
    THEN LET keyPressed == data[i] # 0
             keyIndex == transformKeyIndex(i)
             stateChanged == keyPressed # state[keyIndex]
         IN  IF stateChanged
             THEN InputLoop(data, i + 1,
                            [state EXCEPT ![keyIndex] = keyPressed],
                            Append(emitted,
                                   [type |-> IF keyPressed THEN "down" ELSE "up",
                                    keyIndex |-> keyIndex]))
             ELSE InputLoop(data, i + 1, state, emitted)
    ELSE [keyState |-> state, emitted |-> emitted]

\* device.on('input', data => ...)
Input(data) ==
    LET r == InputLoop(data, 0, keyState, << >>)
    IN  /\ keyState' = r.keyState
        /\ events' = r.emitted
        /\ lastData' = data
        /\ UNCHANGED <<config, outbound>>

\* ---------------------------------------------------------- controller
\* a caller's pending (or last) public method call
NoTask ==
    [ op |-> "none", keyIndex |-> 0, color |-> <<0, 0, 0>>, buffer |-> << >>,
      percentage |-> 0,
      pc |-> "idle", err |-> "none",
      cell |-> 0,              \* loop counter of fillPanel / clearAllKeys
      imageBuffer |-> << >>,   \* fillImageRange's imageBuffer
      byteBuffer |-> << >>,    \* what convertFillImage resolved to
      packets |-> << >>,       \* what generateFillImageWrites returned
      part |-> 0,              \* position of the for..of loop over packets
      remainingBytes |-> 0,    \* generateFillImageWrites' remainingBytes
      fills |-> << >>,         \* the convertFillImage calls made so far
      sent |-> << >> ]         \* what the method handed to the transport so far

Throw(tk, e) == [tk EXCEPT !.pc = "failed", !.err = e]

Return(tk) == [tk EXCEPT !.pc = "done"]

\* checkValidKeyIndex letting NUM_KEYS itself through
checkValidKeyIndexOffByOne(keyIndex) ==
    IF keyIndex < 0 \/ keyIndex > NUM_KEYS THEN "TypeError" ELSE "none"

checkValidKeyIndex(keyIndex) ==
    IF keyIndex < 0 \/ keyIndex >= NUM_KEYS THEN "TypeError" ELSE "none"

checkRGBValue(value) ==
    IF value < 0 \/ value > 255 THEN "TypeError" ELSE "none"

\* fillImageRange up to its first await: the key check, then the call of
\* convertFillImage
fillImageRange(tk, keyIndex, imageBuffer, sourceOffset, sourceStride) ==
    IF checkValidKeyIndex(keyIndex) # "none"
    THEN Throw(tk, checkValidKeyIndex(keyIndex))
    ELSE [tk EXCEPT !.pc = "encoding",
                    !.imageBuffer = imageBuffer,
                    !.byteBuffer = << >>,
                    !.packets = << >>,
                    !.part = 0,
                    !.fills = Append(@, [keyIndex |-> keyIndex,
                                         sourceOffset |-> sourceOffset,
                                         sourceStride |-> sourceStride])]

\* Buffer.alloc(ICON_BYTES, Buffer.from([r, g, b]))
ColorPixels(r, g, b) ==
    [n \in 1..ICON_BYTES |-> <<r % 256, g % 256, b % 256>>[((n - 1) % 3) + 1]]

fillColor(tk, keyIndex, r, g, b) ==
    IF checkValidKeyIndex(keyIndex) # "none"
    THEN Throw(tk, checkValidKeyIndex(keyIndex))
    ELSE IF checkRGBValue(r) # "none" \/ checkRGBValue(g) # "none"
            \/ checkRGBValue(b) # "none"
    THEN Throw(tk, "TypeError")
    ELSE fillImageRange(tk, transformKeyIndex(keyIndex), ColorPixels(r, g, b),
                        0, ICON_SIZE * 3)

\* fillImage handing the caller's key index on untransformed
fillImageUntransformed(tk, keyIndex, imageBuffer) ==
    IF checkValidKeyIndex(keyIndex) # "none"
    THEN Throw(tk, checkValidKeyIndex(keyIndex))
    ELSE IF Len(imageBuffer) # ICON_BYTES
    THEN Throw(tk, "RangeError")
    ELSE fillImageRange(tk, keyIndex, imageBuffer, 0, ICON_SIZE * 3)

\* fillImage rejecting only the buffers that are too short
fillImageLenient(tk, keyIndex, imageBuffer) ==
    IF checkValidKeyIndex(keyIndex) # "none"
    THEN Throw(tk, checkValidKeyIndex(keyIndex))
    ELSE IF Len(imageBuffer) < ICON_BYTES
    THEN Throw(tk, "RangeError")
    ELSE fillImageRange(tk, transformKeyIndex(keyIndex), imageBuffer,
                        0, ICON_SIZE * 3)

fillImage(tk, keyIndex, imageBuffer) ==
    IF checkValidKeyIndex(keyIndex) # "none"
    THEN Throw(tk, checkValidKeyIndex(keyIndex))
    ELSE IF Len(imageBuffer) # ICON_BYTES
    THEN Throw(tk, "RangeError")
    ELSE fillImageRange(tk, transformKeyIndex(keyIndex), imageBuffer,
                        0, ICON_SIZE * 3)

\* clearKey filling the key with white
clearKeyWhite(tk, keyIndex) ==
    IF checkValidKeyIndex(keyIndex) # "none"
    THEN Throw(tk, checkValidKeyIndex(keyIndex))
    ELSE fillColor(tk, keyIndex, 255, 255, 255)

clearKey(tk, keyIndex) ==
    IF checkValidKeyIndex(keyIndex) # "none"
    THEN Throw(tk, checkValidKeyIndex(keyIndex))
    ELSE fillColor(tk, keyIndex, 0, 0, 0)

\* the index computed as if every model were left-to-right
PanelIndexLtr(row, column) == row * KEY_COLUMNS + column

\* the key fillPanel addresses for the panel cell (row, column)
PanelIndex(row, column) ==
    IF props.KEY_DIRECTION = "ltr"
    THEN row * KEY_COLUMNS + column
    ELSE row * KEY_COLUMNS + (KEY_COLUMNS - column - 1)

\* the loops taking a key's row of the panel to be one pixel row high
fillPanelLoopPixelRows(tk, cell) ==
    IF cell < KEY_ROWS * KEY_COLUMNS
    THEN LET row == cell \div KEY_COLUMNS
             column == cell % KEY_COLUMNS
             stride == ICON_SIZE * 3 * KEY_COLUMNS
             rowOffset == stride * row
             colOffset == column * ICON_SIZE * 3
         IN  fillImageRange([tk EXCEPT !.cell = cell], PanelIndex(row, column),
                            tk.buffer, rowOffset + colOffset, stride)
    ELSE Return(tk)

\* fillPanel's nested loops from cell = row * KEY_COLUMNS + column on, up
\* to the await of that cell's fillImageRange
fillPanelLoop(tk, cell) ==
    IF cell < KEY_ROWS * KEY_COLUMNS
    THEN LET row == cell \div KEY_COLUMNS
             column == cell % KEY_COLUMNS
             stride == ICON_SIZE * 3 * KEY_COLUMNS
             rowOffset == stride * row * ICON_SIZE
             colOffset == column * ICON_SIZE * 3
         IN  fillImageRange([tk EXCEPT !.cell = cell], PanelIndex(row, column),
                            tk.buffer, rowOffset + colOffset, stride)
    ELSE Return(tk)

fillPanel(tk, imageBuffer) ==
    IF Len(imageBuffer) # ICON_BYTES * NUM_KEYS
    THEN Throw(tk, "RangeError")
    ELSE fillPanelLoop(tk, 0)

\* clearAllKeys' loop from keyIndex on, up to the await of clearKey
clearAllKeysLoop(tk, keyIndex) ==
    IF keyIndex < NUM_KEYS
    THEN clearKey([tk EXCEPT !.cell = keyIndex], keyIndex)
    ELSE Return(tk)

\* the awaited fillImageRange returned: the method that awaited it goes on
Resume(tk) ==
    CASE tk.op = "fillPanel" -> fillPanelLoop(tk, tk.cell + 1)
      [] tk.op = "clearAllKeys" -> clearAllKeysLoop(tk, tk.cell + 1)
      [] OTHER -> Return(tk)

\* ----------------------------------------------------------- transport
ActivePcs == {"encoding", "sending", "feature", "framing"}

\* a method of caller t is under way: it awaits the encoder or the
\* transport, or it is in the framer's loop
Active(t) == tasks[t].pc \in ActivePcs

\* device.sendReport(packet) / device.sendFeatureReport(buffer) as the
\* transport sees it: fill numbers the method's fillImageRange calls
Sent(kind, fill, data) == [kind |-> kind, fill |-> fill, data |-> data]

\* the transport's log after caller t handed it sends, with the tasks as
\* they will be: the log keeps what the pending methods handed over
Wire(log, t, newTasks, sends) ==
    SelectSeq(log \o [i \in 1..Len(sends) |->
                        [by |-> t, kind |-> sends[i].kind,
                         fill |-> sends[i].fill, data |-> sends[i].data]],
              LAMBDA e : newTasks[e.by].pc \in ActivePcs)

\* caller t's task becomes tk, having handed sends to the transport and
\* seen `settled` of its transport promises settle; log is the transport's
\* log so far
Step(log, t, tk, sends, settled) ==
    LET newTasks == [tasks EXCEPT ![t] = [tk EXCEPT !.sent = @ \o sends]]
    IN  /\ tasks' = newTasks
        /\ wire' = Wire(log, t, newTasks, sends)
        /\ inflight' = [inflight EXCEPT ![t] = @ - settled + Len(sends)]

\* the log without what caller t's previous method handed over
Others(t) == SelectSeq(wire, LAMBDA e : e.by # t)

\* caller t calls a public method: tk is its task at the first await (or at
\* the throw), sends what it handed to the transport on the way
Call(t, tk, sends) ==
    /\ ~Active(t)
    /\ Step(Others(t), t, tk, sends, 0)
    /\ overlapped' = (\E u \in Callers \ {t} : Active(u))
    /\ UNCHANGED <<config, tracker>>

\* the loop without its await: every remaining packet goes out at once
SendLoopNoAwait(t, tk, settled) ==
    IF tk.part < Len(tk.packets)
    THEN Step(wire, t, [tk EXCEPT !.pc = "sending"],
              [i \in 1..(Len(tk.packets) - tk.part) |->
                 Sent("report", Len(tk.fills), tk.packets[tk.part + i])],
              settled)
    ELSE Step(wire, t, Resume(tk), << >>, settled)

\* the loop awaiting a promise of its own in place of the transport's: the
\* packet goes out, but nothing the method waits for ever settles
SendLoopLostPromise(t, tk, settled) ==
    IF tk.part < Len(tk.packets)
    THEN Step(wire, t, [tk EXCEPT !.pc = "sending"],
              << Sent("report", Len(tk.fills), tk.packets[tk.part + 1]) >>,
              settled + 1)
    ELSE Step(wire, t, Resume(tk), << >>, settled)

\* for (const packet of packets) { await this.device.sendReport(packet) }
\* from position tk.part on, `settled` promises having just settled: the
\* next packet goes out and the loop awaits it, or the loop is over and
\* fillImageRange returns
SendLoop(t, tk, settled) ==
    IF tk.part < Len(tk.packets)
    THEN Step(wire, t, [tk EXCEPT !.pc = "sending"],
              << Sent("report", Len(tk.fills), tk.packets[tk.part + 1]) >>,
              settled)
    ELSE Step(wire, t, Resume(tk), << >>, settled)

\* ------------------------------------------------------ public methods
KeyInputs == -1..NUM_KEYS

ColorInputs ==
    { <<0, 0, 0>>, <<255, 255, 255>>, <<1, 2, 3>>, <<-1, 0, 0>>, <<0, 0, 256>> }

Uniform(n, c) == [i \in 1..n |-> c]

Ramp(n) == [i \in 1..n |-> (i - 1) % 256]

ImageInputs ==
    { Uniform(n, c) : n \in {ICON_BYTES - 1, ICON_BYTES, ICON_BYTES + 1},
                      c \in {0, 255} }
    \cup { Ramp(ICON_BYTES) }

PanelInputs ==
    { Ramp(n) : n \in { ICON_BYTES * NUM_KEYS - 1, ICON_BYTES * NUM_KEYS,
                        ICON_BYTES * NUM_KEYS + 1 } }

PercentageInputs == {-1, 0, 50, 100, 101}

FillColor(t, keyIndex, rgb) ==
    Call(t, fillColor([NoTask EXCEPT !.op = "fillColor", !.keyIndex = keyIndex,
                                     !.color = rgb],
                      keyIndex, rgb[1], rgb[2], rgb[3]), << >>)

FillImage(t, keyIndex, imageBuffer) ==
    Call(t, fillImage([NoTask EXCEPT !.op = "fillImage", !.keyIndex = keyIndex,
                                     !.buffer = imageBuffer],
                      keyIndex, imageBuffer), << >>)

FillPanel(t, imageBuffer) ==
    Call(t, fillPanel([NoTask EXCEPT !.op = "fillPanel", !.buffer = imageBuffer],
                      imageBuffer), << >>)

ClearKey(t, keyIndex) ==
    Call(t, clearKey([NoTask EXCEPT !.op = "clearKey", !.keyIndex = keyIndex],
                     keyIndex), << >>)

ClearAllKeys(t) ==
    Call(t, clearAllKeysLoop([NoTask EXCEPT !.op = "clearAllKeys"], 0), << >>)

brightnessCommandBuffer(percentage) ==
    << 5, 85, 170, 209, 1, percentage, 0, 0, 0, 0, 0, 0, 0, 0, 0, 0, 0 >>

\* setBrightness rejecting 100 as well
SetBrightnessBelowFull(t, percentage) ==
    LET tk == [NoTask EXCEPT !.op = "setBrightness", !.percentage = percentage]
    IN  IF percentage < 0 \/ percentage >= 100
        THEN Call(t, Throw(tk, "RangeError"), << >>)
        ELSE Call(t, [tk EXCEPT !.pc = "feature"],
                  << Sent("feature", 0, brightnessCommandBuffer(percentage)) >>)

SetBrightness(t, percentage) ==
    LET tk == [NoTask EXCEPT !.op = "setBrightness", !.percentage = percentage]
    IN  IF percentage < 0 \/ percentage > 100
        THEN Call(t, Throw(tk, "RangeError"), << >>)
        ELSE Call(t, [tk EXCEPT !.pc = "feature"],
                  << Sent("feature", 0, brightnessCommandBuffer(percentage)) >>)

resetCommandBuffer ==
    << 11, 99, 0, 0, 0, 0, 0, 0, 0, 0, 0, 0, 0, 0, 0, 0, 0 >>

\* resetToLogo forgetting which keys are held down as well
ResetToLogoClearingKeys(t) ==
    /\ ~Active(t)
    /\ Step(Others(t), t, [NoTask EXCEPT !.op = "resetToLogo", !.pc = "feature"],
            << Sent("feature", 0, resetCommandBuffer) >>, 0)
    /\ overlapped' = (\E u \in Callers \ {t} : Active(u))
    /\ keyState' = [k \in 0..(NUM_KEYS - 1) |-> FALSE]
    /\ UNCHANGED <<config, lastData, events>>

ResetToLogo(t) ==
    Call(t, [NoTask EXCEPT !.op = "resetToLogo", !.pc = "feature"],
         << Sent("feature", 0, resetCommandBuffer) >>)

\* ------------------------------------------- continuations after an await
\* convertFillImage resolved: frame the image and start sending
EncodeDone(t) ==
    /\ tasks[t].pc = "encoding"
    /\ LET tk == tasks[t]
           call == tk.fills[Len(tk.fills)]
           byteBuffer == convertFillImage(tk.imageBuffer, call.sourceOffset,
                                          call.sourceStride)
           packets == generateFillImageWrites(call.keyIndex, byteBuffer)
       IN  SendLoop(t, [tk EXCEPT !.byteBuffer = byteBuffer,
                                  !.packets = packets, !.part = 0], 0)
    /\ UNCHANGED <<config, tracker, overlapped>>

\* convertFillImage rejected after a first packet was already handed over
EncodeFailAfterFirstPacket(t) ==
    /\ tasks[t].pc = "encoding"
    /\ Step(wire, t, Throw(tasks[t], "EncodingError"),
            << Sent("report", Len(tasks[t].fills),
                    writeFillImageCommandHeader(
                        tasks[t].fills[Len(tasks[t].fills)].keyIndex, 0, TRUE)
                    \o Zeros(packetLength - getFillImageCommandHeaderLength)) >>,
            1)
    /\ UNCHANGED <<config, tracker, overlapped>>

\* convertFillImage rejected: the method rejects with the encoder's error
EncodeFail(t) ==
    /\ tasks[t].pc = "encoding"
    /\ Step(wire, t, Throw(tasks[t], "EncodingError"), << >>, 0)
    /\ UNCHANGED <<config, tracker, overlapped>>

\* sendReport resolved: on to the next packet
SendReportDone(t) ==
    /\ tasks[t].pc = "sending"
    /\ inflight[t] > 0
    /\ SendLoop(t, [tasks[t] EXCEPT !.part = @ + 1], 1)
    /\ UNCHANGED <<config, tracker, overlapped>>

\* sendReport rejected and the packet sent a second time before giving up
SendReportFailRetryOnce(t) ==
    /\ tasks[t].pc = "sending"
    /\ inflight[t] > 0
    /\ LET tk == tasks[t]
           packet == tk.packets[tk.part + 1]
           tries == Cardinality({n \in 1..Len(tk.sent) :
                                    /\ tk.sent[n].fill = Len(tk.fills)
                                    /\ tk.sent[n].data = packet})
       IN  IF tries < 2
           THEN Step(wire, t, tk, << Sent("report", Len(tk.fills), packet) >>, 1)
           ELSE Step(wire, t, Throw(tk, "TransportError"), << >>, 1)
    /\ UNCHANGED <<config, tracker, overlapped>>

\* sendReport rejected: the method rejects with the transport's error
SendReportFail(t) ==
    /\ tasks[t].pc = "sending"
    /\ inflight[t] > 0
    /\ Step(wire, t, Throw(tasks[t], "TransportError"), << >>, 1)
    /\ UNCHANGED <<config, tracker, overlapped>>

\* sendFeatureReport resolved
FeatureDone(t) ==
    /\ tasks[t].pc = "feature"
    /\ Step(wire, t, Return(tasks[t]), << >>, 1)
    /\ UNCHANGED <<config, tracker, overlapped>>

\* sendFeatureReport rejected
FeatureFail(t) ==
    /\ tasks[t].pc = "feature"
    /\ Step(wire, t, Throw(tasks[t], "TransportError"), << >>, 1)
    /\ UNCHANGED <<config, tracker, overlapped>>

\* ------------------------------------------- the framer, step by step
\* generateFillImageWrites(keyIndex, byteBuffer) up to the first test of
\* its loop
GenerateFillImageWrites(t, keyIndex, byteBuffer) ==
    /\ ~Active(t)
    /\ tasks' = [tasks EXCEPT ![t] =
                    [NoTask EXCEPT !.op = "generateFillImageWrites",
                                   !.keyIndex = keyIndex,
                                   !.byteBuffer = byteBuffer,
                                   !.remainingBytes = Len(byteBuffer),
                                   !.pc = "framing"]]
    /\ UNCHANGED <<config, tracker, wire, inflight, overlapped>>

\* one iteration of its loop: remainingBytes > 0
FillImageWritesNext(t) ==
    /\ tasks[t].pc = "framing"
    /\ tasks[t].remainingBytes > 0
    /\ LET tk == tasks[t]
           iteration == FillImageWritesIteration(tk.keyIndex, tk.byteBuffer,
                                                 tk.part, tk.remainingBytes)
       IN  tasks' = [tasks EXCEPT ![t] =
                       [tk EXCEPT !.packets = Append(@, iteration.packet),
                                  !.remainingBytes = iteration.remainingBytes,
                                  !.part = @ + 1]]
    /\ UNCHANGED <<config, tracker, wire, inflight, overlapped>>

\* the loop test fails: return result
FillImageWritesReturn(t) ==
    /\ tasks[t].pc = "framing"
    /\ ~(tasks[t].remainingBytes > 0)
    /\ tasks' = [tasks EXCEPT ![t] = Return(tasks[t])]
    /\ UNCHANGED <<config, tracker, wire, inflight, overlapped>>

\* --------------------------------------------------------- input reports
\* the values a slot of an input report takes: released, and two ways of
\* being pressed
SlotValues == {0, 1, 2}

RawReports == [0..(NUM_KEYS - 1) -> SlotValues]

\* ------------------------------------------------------- specifications
\* the state the constructor leaves, for each device variant
Init ==
    /\ props \in Devices
    /\ packetLength \in (getFillImageCommandHeaderLength + 1)
                        ..(getFillImageCommandHeaderLength + MaxPayload)
    /\ encLen \in 0..MaxEncLen
    /\ keyState = [k \in 0..(NUM_KEYS - 1) |-> FALSE]
    /\ lastData = [i \in 0..(NUM_KEYS - 1) |-> 0]
    /\ events = << >>
    /\ tasks = [t \in Callers |-> NoTask]
    /\ wire = << >>
    /\ inflight = [t \in Callers |-> 0]
    /\ overlapped = FALSE

\* every argument a caller may pass, out-of-range ones included
AllInputs ==
    [ keys |-> KeyInputs, colors |-> ColorInputs, images |-> ImageInputs,
      panels |-> PanelInputs, percentages |-> PercentageInputs ]

\* the arguments every method accepts
ValidInputs ==
    [ keys |-> 0..(NUM_KEYS - 1),
      colors |-> { <<0, 0, 0>>, <<255, 255, 255>> },
      images |-> { Uniform(ICON_BYTES, 0), Uniform(ICON_BYTES, 255) },
      panels |-> { Ramp(ICON_BYTES * NUM_KEYS) },
      percentages |-> { 50 } ]

Arguments(which) == IF which = "all" THEN AllInputs ELSE ValidInputs

\* what caller t can do, with the arguments named by `which`, and what can
\* happen to its pending method
Method(t, which) ==
    \/ \E keyIndex \in Arguments(which).keys, rgb \in Arguments(which).colors : FillColor(t, keyIndex, rgb)
    \/ \E keyIndex \in Arguments(which).keys, b \in Arguments(which).images : FillImage(t, keyIndex, b)
    \/ \E b \in Arguments(which).panels : FillPanel(t, b)
    \/ \E keyIndex \in Arguments(which).keys : ClearKey(t, keyIndex)
    \/ ClearAllKeys(t)
    \/ \E p \in Arguments(which).percentages : SetBrightness(t, p)
    \/ ResetToLogo(t)
    \/ EncodeDone(t)
    \/ EncodeFail(t)
    \/ SendReportDone(t)
    \/ SendReportFail(t)
    \/ FeatureDone(t)
    \/ FeatureFail(t)

\* one caller, which awaits each method before it calls the next
Next == Method("a", "all")

Spec == Init /\ [][Next]_vars

\* the button tracker, fed every report
NextInput == \E data \in RawReports : Input(data)

InitInput ==
    /\ Init
    /\ packetLength = getFillImageCommandHeaderLength + 1
    /\ encLen = 0

SpecInput == InitInput /\ [][NextInput]_vars

\* two callers that do not wait for each other, on a two-key right-to-left
\* device
InitConcurrent ==
    /\ props = [COLUMNS |-> 2, ROWS |-> 1, ICON_SIZE |-> 1, KEY_DIRECTION |-> "rtl"]
    /\ packetLength = getFillImageCommandHeaderLength + MaxPayload
    /\ encLen \in 0..MaxEncLen
    /\ keyState = [k \in 0..(NUM_KEYS - 1) |-> FALSE]
    /\ lastData = [i \in 0..(NUM_KEYS - 1) |-> 0]
    /\ events = << >>
    /\ tasks = [t \in Callers |-> NoTask]
    /\ wire = << >>
    /\ inflight = [t \in Callers |-> 0]
    /\ overlapped = FALSE

NextConcurrent == \E t \in Callers : Method(t, "valid")

SpecConcurrent == InitConcurrent /\ [][NextConcurrent]_vars

\* the framer alone, on encoded images of up to MaxEncLen bytes and of
\* LongEncLen bytes
InitFramer ==
    /\ props \in Devices
    /\ packetLength \in (getFillImageCommandHeaderLength + 1)
                        ..(getFillImageCommandHeaderLength + MaxPayload)
    /\ encLen \in (0..MaxEncLen) \cup {LongEncLen}
    /\ keyState = [k \in 0..(NUM_KEYS - 1) |-> FALSE]
    /\ lastData = [i \in 0..(NUM_KEYS - 1) |-> 0]
    /\ events = << >>
    /\ tasks = [t \in Callers |-> NoTask]
    /\ wire = << >>
    /\ inflight = [t \in Callers |-> 0]
    /\ overlapped = FALSE

NextFramer ==
    \/ \E keyIndex \in 0..(NUM_KEYS - 1) :
         GenerateFillImageWrites("a", keyIndex, Ramp(encLen))
    \/ FillImageWritesNext("a")
    \/ FillImageWritesReturn("a")

SpecFramer == InitFramer /\ [][NextFramer]_vars

\* one caller and the input reports of a two-key right-to-left device, in
\* every interleaving
InitInterleaved ==
    /\ InitConcurrent
    /\ encLen = MaxEncLen

NextInterleaved ==
    \/ Method("a", "valid")
    \/ \E data \in RawReports : Input(data)

SpecInterleaved == InitInterleaved /\ [][NextInterleaved]_vars

\* one caller on the two-by-two devices whose keys are two pixels wide
InitPanel ==
    /\ props \in { [COLUMNS |-> 2, ROWS |-> 2, ICON_SIZE |-> 2, KEY_DIRECTION |-> d] :
                      d \in {"ltr", "rtl"} }
    /\ packetLength = getFillImageCommandHeaderLength + MaxPayload
    /\ encLen = MaxEncLen
    /\ keyState = [k \in 0..(NUM_KEYS - 1) |-> FALSE]
    /\ lastData = [i \in 0..(NUM_KEYS - 1) |-> 0]
    /\ events = << >>
    /\ tasks = [t \in Callers |-> NoTask]
    /\ wire = << >>
    /\ inflight = [t \in Callers |-> 0]
    /\ overlapped = FALSE

NextPanel == Method("a", "valid")

SpecPanel == InitPanel /\ [][NextPanel]_vars

\* one caller on a two-key device, calling the public methods and the
\* framer by itself; what it waits for comes in the end: every awaited
\* encoder call and transport send settles, every started iteration of the
\* framer's loop is carried out
NextLive ==
    \/ Method("a", "valid")
    \/ \E keyIndex \in 0..(NUM_KEYS - 1) :
         GenerateFillImageWrites("a", keyIndex, Ramp(encLen))
    \/ FillImageWritesNext("a")
    \/ FillImageWritesReturn("a")

\* the steps that end a wait of caller t; at most one kind is enabled at a
\* time
Settle(t) ==
    \/ EncodeDone(t) \/ EncodeFail(t)
    \/ SendReportDone(t) \/ SendReportFail(t)
    \/ FeatureDone(t) \/ FeatureFail(t)
    \/ FillImageWritesNext(t) \/ FillImageWritesReturn(t)

SpecLive == InitConcurrent /\ [][NextLive]_vars /\ WF_vars(Settle("a"))

\* ============================================================== claims
\* what the claims read off a packet's header
PartIndex(packet) == packet[3] + 256 * packet[4]

IsLast(packet) == packet[5] = 1

\* the payload capacity of a packet
Capacity == packetLength - getFillImageCommandHeaderLength

\* the packets a method handed over for its f-th fillImageRange call
TransferOf(tk, f) == SelectSeq(tk.sent, LAMBDA e : e.fill = f)

DataOf(sends) == [i \in 1..Len(sends) |-> sends[i].data]

KeyMethods == {"fillColor", "fillImage", "clearKey"}

ValidationErrors == {"TypeError", "RangeError"}

IOErrors == {"EncodingError", "TransportError"}

\* the other arguments of a key method are acceptable
OtherArgumentsValid(tk) ==
    /\ tk.op = "fillColor" => \A i \in 1..3 : tk.color[i] \in 0..255
    /\ tk.op = "fillImage" => Len(tk.buffer) = ICON_BYTES

\* C1: fillColor, fillImage and clearKey with a key outside [0, NUM_KEYS)
\* fail with a validation error without any encoder or transport call;
\* with a key inside (and otherwise valid arguments) they never fail
\* validation: they are pending, done, or failed by the encoder or the
\* transport.
C1_KeyIndexValidated ==
    \A t \in Callers :
        LET tk == tasks[t]
        IN  tk.op \in KeyMethods =>
              /\ (tk.keyIndex < 0 \/ tk.keyIndex >= NUM_KEYS) =>
                    /\ tk.pc = "failed"
                    /\ tk.err \in ValidationErrors
                    /\ tk.fills = << >>
                    /\ tk.sent = << >>
                    /\ inflight[t] = 0
              /\ (tk.keyIndex >= 0 /\ tk.keyIndex < NUM_KEYS
                  /\ OtherArgumentsValid(tk)) =>
                    /\ tk.pc # "idle"
                    /\ tk.err \notin ValidationErrors
                    /\ tk.pc = "failed" => tk.err \in IOErrors

C1_Witness ==
    \E t \in Callers :
        /\ tasks[t].op = "clearKey"
        /\ tasks[t].keyIndex = NUM_KEYS
        /\ tasks[t].pc = "failed"
        /\ tasks[t].err = "TypeError"

RECURSIVE JoinPayloads(_, _, _)
\* the first min(Capacity, remaining) payload bytes of the packets from
\* the i-th on, joined
JoinPayloads(packets, i, remaining) ==
    IF i > Len(packets)
    THEN << >>
    ELSE SubSeq(packets[i], getFillImageCommandHeaderLength + 1,
                getFillImageCommandHeaderLength + Min(Capacity, remaining))
         \o JoinPayloads(packets, i + 1, remaining - Min(Capacity, remaining))

\* C2: framing L encoded bytes gives ceil(L / Capacity) packets, only the
\* last of which is flagged last, and whose payloads joined are the L bytes.
C2_Framing ==
    \A t \in Callers :
        LET tk == tasks[t]
            L == Len(tk.byteBuffer)
            n == Len(tk.packets)
        IN  tk.pc \in {"sending", "done", "failed"} /\ tk.err # "EncodingError"
            /\ tk.fills # << >> =>
              /\ n = (L + Capacity - 1) \div Capacity
              /\ \A i \in 1..n : IsLast(tk.packets[i]) <=> (i = n)
              /\ JoinPayloads(tk.packets, 1, L) = tk.byteBuffer

C2_Witness ==
    \E t \in Callers :
        /\ tasks[t].pc = "sending"
        /\ Len(tasks[t].packets) = 2
        /\ Len(tasks[t].byteBuffer) % Capacity # 0
        /\ tasks[t].byteBuffer[1] # tasks[t].byteBuffer[2]

\* the f-th fillImageRange call of the method is over
FillOver(tk, f) == f < Len(tk.fills) \/ (f = Len(tk.fills) /\ tk.pc = "done")

PartsFromZero(transfer) ==
    \A i \in 1..Len(transfer) : PartIndex(transfer[i].data) = i - 1

OneLastTheFinal(transfer) ==
    /\ Cardinality({i \in 1..Len(transfer) : IsLast(transfer[i].data)}) = 1
    /\ IsLast(transfer[Len(transfer)].data)

\* C3 as claimed: every image transfer, that of an empty encoded image
\* included, has parts 0, 1, 2, ... and exactly one packet flagged last,
\* the final one.
C3_Original ==
    \A t \in Callers : \A f \in 1..Len(tasks[t].fills) :
        FillOver(tasks[t], f) =>
            /\ PartsFromZero(TransferOf(tasks[t], f))
            /\ OneLastTheFinal(TransferOf(tasks[t], f))

\* C3 amended: the parts of every image transfer are numbered 0, 1, 2, ...;
\* when the encoded image is not empty exactly one packet is flagged last,
\* the final one; when it is empty no packet is handed over at all.
C3_Transfer ==
    \A t \in Callers : \A f \in 1..Len(tasks[t].fills) :
        /\ PartsFromZero(TransferOf(tasks[t], f))
        /\ FillOver(tasks[t], f) =>
              IF encLen > 0
              THEN OneLastTheFinal(TransferOf(tasks[t], f))
              ELSE TransferOf(tasks[t], f) = << >>

C3_Witness ==
    \E t \in Callers :
        /\ tasks[t].op = "fillImage"
        /\ tasks[t].pc = "done"
        /\ Len(tasks[t].sent) = 4

\* C4: while fillImageRange sends, the parts handed to the transport are
\* the framer's packets in order up to the one awaited, which is the only
\* one not completed; after a failed send nothing more is handed over.
C4_InOrderAwaited ==
    \A t \in Callers :
        LET tk == tasks[t]
            current == DataOf(TransferOf(tk, Len(tk.fills)))
        IN  /\ tk.pc = "sending" =>
                /\ current = SubSeq(tk.packets, 1, tk.part + 1)
                /\ inflight[t] = 1
            /\ tk.pc = "failed" /\ tk.err = "TransportError"
               /\ tk.op \notin {"setBrightness", "resetToLogo"} =>
                /\ current = SubSeq(tk.packets, 1, tk.part + 1)
                /\ inflight[t] = 0
            /\ tk.pc = "done" /\ tk.fills # << >> =>
                /\ current = tk.packets
                /\ inflight[t] = 0

C4_Witness ==
    \E t \in Callers :
        /\ tasks[t].pc = "sending"
        /\ tasks[t].part = 2
        /\ Len(tasks[t].packets) = 4

\* transport commands not yet completed, over all callers
InFlight == inflight["a"] + inflight["b"]

\* no packet of another image transfer lies between two packets of one
NotInterleaved(log) ==
    \A i, j, k \in 1..Len(log) :
        /\ i < j /\ j < k
        /\ log[i].kind = "report" /\ log[j].kind = "report"
        /\ log[i].by = log[k].by /\ log[i].fill = log[k].fill
        => log[j].by = log[i].by /\ log[j].fill = log[i].fill

\* C5 as claimed: at most one transport command is in flight and image
\* transfers are never interleaved, also when a method is called while
\* another one is pending.
C5_Original == InFlight <= 1 /\ NotInterleaved(wire)

\* C5 amended: every method keeps at most one transport command in flight;
\* as long as no method is called while another caller's is pending, at
\* most one command is in flight overall and transfers are not interleaved.
C5_Serialised ==
    /\ \A t \in Callers : inflight[t] <= 1
    /\ ~overlapped => InFlight <= 1 /\ NotInterleaved(wire)

C5_Witness ==
    /\ ~overlapped
    /\ \E t, u \in Callers :
        /\ t # u
        /\ tasks[u].pc = "done"
        /\ tasks[u].sent # << >>
        /\ tasks[t].op = "clearAllKeys"
        /\ Len(tasks[t].fills) = 2
        /\ inflight[t] = 1

Slots == 0..(NUM_KEYS - 1)

\* C6: handling a report equal to the previous one emits nothing; handling
\* one that differs from it in exactly one slot, which went from zero to
\* nonzero or back, emits exactly one event: down (to nonzero) or up (to
\* zero) for the logical key transformKeyIndex(slot).
C6_EdgeEvents ==
    [][ /\ lastData' = lastData => events' = << >>
        /\ \A i \in Slots :
             /\ {j \in Slots : lastData'[j] # lastData[j]} = {i}
             /\ (lastData[i] = 0) # (lastData'[i] = 0)
             => events' = << [type |-> IF lastData[i] = 0 THEN "down" ELSE "up",
                              keyIndex |-> transformKeyIndex(i)] >>
      ]_vars

C6_Witness ==
    \E i, j \in Slots :
        /\ transformKeyIndex(i) # i
        /\ lastData[i] = 0
        /\ lastData[j] = 2
        /\ events = << [type |-> "up", keyIndex |-> transformKeyIndex(i)] >>

\* the native key fillImage and fillColor address for the logical key k
FillTarget(k) == fillImage(NoTask, k, Uniform(ICON_BYTES, 0)).fills[1].keyIndex

ColorTarget(k) == fillColor(NoTask, k, 0, 0, 0).fills[1].keyIndex

\* C7: transformKeyIndex is a bijection of [0, NUM_KEYS) that is its own
\* inverse, and the native key a fill of logical key k addresses is the
\* slot whose press emits down(k) and whose release emits up(k).
C7_TransformInverse ==
    /\ \A k \in Slots :
         /\ transformKeyIndex(k) \in Slots
         /\ transformKeyIndex(transformKeyIndex(k)) = k
         /\ FillTarget(k) = ColorTarget(k)
    /\ \A n \in 1..Len(events) :
         LET e == events[n]
         IN  /\ (lastData[FillTarget(e.keyIndex)] # 0) <=> (e.type = "down")
             /\ keyState[e.keyIndex] <=> (e.type = "down")

C7_Witness ==
    \E n \in 1..Len(events) :
        /\ events[n].type = "down"
        /\ FillTarget(events[n].keyIndex) # events[n].keyIndex
        /\ props.ROWS = 2
        /\ events[n].keyIndex >= KEY_COLUMNS

\* C8: fillPanel with a buffer of the right length makes one fillImageRange
\* call per panel cell in row-major order, each after the previous one's
\* packets were all sent and completed, NUM_KEYS calls in all that address
\* every native key once; on a right-to-left model the cell (row, column)
\* addresses the key a left-to-right model addresses for (row,
\* KEY_COLUMNS - 1 - column).
C8_PanelFill ==
    \A t \in Callers :
        LET tk == tasks[t]
            LtrKey(row, column) == row * KEY_COLUMNS + column
        IN  tk.op = "fillPanel" /\ Len(tk.buffer) = ICON_BYTES * NUM_KEYS =>
              /\ Len(tk.fills) = tk.cell + 1
              /\ \A f \in 1..Len(tk.fills) :
                    LET row == (f - 1) \div KEY_COLUMNS
                        column == (f - 1) % KEY_COLUMNS
                    IN  tk.fills[f].keyIndex =
                          IF props.KEY_DIRECTION = "rtl"
                          THEN LtrKey(row, KEY_COLUMNS - 1 - column)
                          ELSE LtrKey(row, column)
              /\ \A i, j \in 1..Len(tk.sent) : i < j => tk.sent[i].fill <= tk.sent[j].fill
              /\ tk.pc = "encoding" =>
                    /\ inflight[t] = 0
                    /\ encLen > 0 =>
                          \A f \in 1..(Len(tk.fills) - 1) :
                              OneLastTheFinal(TransferOf(tk, f))
              /\ tk.pc = "done" =>
                    /\ Len(tk.fills) = NUM_KEYS
                    /\ {tk.fills[f].keyIndex : f \in 1..Len(tk.fills)} = Slots

C8_Witness ==
    \E t \in Callers :
        /\ tasks[t].op = "fillPanel"
        /\ tasks[t].pc = "done"
        /\ props.KEY_DIRECTION = "rtl"
        /\ props.ROWS = 2
        /\ Len(tasks[t].sent) = 2 * NUM_KEYS

\* C9: fillColor(k, c, c, c) and fillImage(k, ICON_BYTES bytes all c), both
\* completed, handed the transport the same packets in the same order.
C9_ColorAsImage ==
    \A t, u \in Callers :
        LET c == tasks[t].color[1]
        IN  /\ tasks[t].op = "fillColor" /\ tasks[t].pc = "done"
            /\ tasks[t].color = <<c, c, c>>
            /\ tasks[u].op = "fillImage" /\ tasks[u].pc = "done"
            /\ tasks[u].buffer = Uniform(ICON_BYTES, c)
            /\ tasks[u].keyIndex = tasks[t].keyIndex
            => tasks[t].sent = tasks[u].sent

C9_Witness ==
    \E t, u \in Callers :
        /\ tasks[t].op = "fillColor" /\ tasks[t].pc = "done"
        /\ tasks[t].color = <<255, 255, 255>>
        /\ tasks[u].op = "fillImage" /\ tasks[u].pc = "done"
        /\ tasks[u].buffer = Uniform(ICON_BYTES, 255)
        /\ tasks[u].keyIndex = tasks[t].keyIndex
        /\ Len(tasks[t].sent) = 2

NothingAttempted(t) ==
    /\ tasks[t].pc = "failed"
    /\ tasks[t].err \in ValidationErrors
    /\ tasks[t].fills = << >>
    /\ tasks[t].sent = << >>
    /\ inflight[t] = 0

\* C10: fillImage with a buffer of another length than ICON_BYTES, and
\* fillPanel with one of another length than ICON_BYTES * NUM_KEYS, fail
\* with a validation error before any encoder or transport call; with the
\* exact length (and a valid key) they go on to the encoder.
C10_BufferLength ==
    \A t \in Callers :
        LET tk == tasks[t]
        IN  /\ tk.op = "fillImage" /\ Len(tk.buffer) # ICON_BYTES
               => NothingAttempted(t)
            /\ tk.op = "fillPanel" /\ Len(tk.buffer) # ICON_BYTES * NUM_KEYS
               => NothingAttempted(t)
            /\ tk.op = "fillImage" /\ Len(tk.buffer) = ICON_BYTES
               /\ tk.keyIndex \in Slots
               => tk.err \notin ValidationErrors /\ tk.fills # << >>
            /\ tk.op = "fillPanel" /\ Len(tk.buffer) = ICON_BYTES * NUM_KEYS
               => tk.err \notin ValidationErrors /\ tk.fills # << >>

C10_Witness ==
    \E t \in Callers :
        /\ tasks[t].op = "fillImage"
        /\ tasks[t].keyIndex \in Slots
        /\ Len(tasks[t].buffer) = ICON_BYTES + 1
        /\ tasks[t].pc = "failed"
        /\ tasks[t].err = "RangeError"

\* C11: setBrightness(p) with p < 0 or p > 100 fails with a validation error
\* and hands the transport nothing; with p in [0, 100] it hands the
\* transport exactly one feature report: report id 0x05, then the 16 bytes
\* 0x55, 0xAA, 0xD1, 0x01, p, 0, ..., 0.
C11_Brightness ==
    \A t \in Callers :
        LET tk == tasks[t]
            p == tk.percentage
        IN  tk.op = "setBrightness" =>
              IF p < 0 \/ p > 100
              THEN /\ NothingAttempted(t)
                   /\ \A n \in 1..Len(wire) : wire[n].by # t
              ELSE /\ tk.pc \in {"feature", "done", "failed"}
                   /\ tk.err \notin ValidationErrors
                   /\ Len(tk.sent) = 1
                   /\ tk.sent[1].kind = "feature"
                   /\ Len(tk.sent[1].data) = 17
                   /\ tk.sent[1].data[1] = 5
                   /\ SubSeq(tk.sent[1].data, 2, 17)
                        = <<85, 170, 209, 1, p>> \o Zeros(11)
                   /\ tk.pc = "feature" =>
                        /\ inflight[t] = 1
                        /\ Cardinality({n \in 1..Len(wire) : wire[n].by = t}) = 1

C11_Witness ==
    \E t \in Callers :
        /\ tasks[t].op = "setBrightness"
        /\ tasks[t].percentage = 100
        /\ tasks[t].pc = "done"
        /\ tasks[t].sent[1].data[6] = 100

FillMethods == {"fillColor", "fillImage", "fillPanel"}

\* the method of caller t failed because the encoder rejected
EncoderFailed(t) ==
    tasks[t].pc = "failed" /\ tasks[t].err = "EncodingError"

\* the packets of the method's f-th fillImageRange call, had it completed
WholeTransfer(tk, f) ==
    generateFillImageWrites(tk.fills[f].keyIndex,
                            convertFillImage(tk.imageBuffer,
                                             tk.fills[f].sourceOffset,
                                             tk.fills[f].sourceStride))

\* C12 as claimed: when the encoder fails during fillColor, fillImage or
\* fillPanel, no image packet of that operation was handed to the transport.
C12_Original ==
    \A t \in Callers :
        tasks[t].op \in FillMethods /\ EncoderFailed(t) => tasks[t].sent = << >>

\* C12 amended: when the encoder fails during fillColor, fillImage or
\* fillPanel, the method fails with the encoder's failure and no packet of
\* the key fill whose encoding failed was handed to the transport: none at
\* all by fillColor and fillImage; by fillPanel the complete transfers of the
\* cells before the failing one, and no fill of a later cell is started.
C12_NoPacketOfFailedFill ==
    \A t \in Callers :
        LET tk == tasks[t]
        IN  /\ tk.pc = "encoding" =>
                /\ TransferOf(tk, Len(tk.fills)) = << >>
                /\ inflight[t] = 0
            /\ tk.op \in FillMethods /\ EncoderFailed(t) =>
                /\ TransferOf(tk, Len(tk.fills)) = << >>
                /\ inflight[t] = 0
                /\ tk.op \in {"fillColor", "fillImage"} => tk.sent = << >>
                /\ tk.op = "fillPanel" =>
                     /\ Len(tk.fills) = tk.cell + 1
                     /\ \A f \in 1..(Len(tk.fills) - 1) :
                          DataOf(TransferOf(tk, f)) = WholeTransfer(tk, f)

C12_Witness ==
    \E t \in Callers :
        /\ tasks[t].op = "fillPanel"
        /\ EncoderFailed(t)
        /\ tasks[t].cell = 2
        /\ Len(tasks[t].sent) = 4

ImageMethods == {"fillColor", "fillImage", "fillPanel", "clearKey", "clearAllKeys"}

\* the method of caller t failed because a sendReport was rejected
SendFailed(tk) ==
    tk.op \in ImageMethods /\ tk.pc = "failed" /\ tk.err = "TransportError"

\* how often part k of the method's f-th transfer was handed over
TimesSent(tk, f, k) ==
    Cardinality({n \in 1..Len(tk.sent) :
                    tk.sent[n].fill = f /\ PartIndex(tk.sent[n].data) = k})

\* what a method that failed at part k = tk.part of its current transfer
\* has handed over: parts 0..k of that transfer once each, nothing beyond,
\* and no fill of a later key
StoppedAtFailure(t) ==
    LET tk == tasks[t]
        f == Len(tk.fills)
        k == tk.part
    IN  /\ inflight[t] = 0
        /\ k < Len(tk.packets)
        /\ \A p \in 0..(Len(tk.packets) - 1) :
             TimesSent(tk, f, p) = IF p <= k THEN 1 ELSE 0
        /\ tk.sent[Len(tk.sent)].data = tk.packets[k + 1]
        /\ tk.op \in {"fillPanel", "clearAllKeys"} => f = tk.cell + 1
        /\ tk.op \notin {"fillPanel", "clearAllKeys"} => f = 1

\* C13: when the transport fails the send of part k of a transfer, the
\* method fails with the transport's failure, having sent parts 0..k once
\* each and no part after k, and fillPanel and clearAllKeys have started no
\* fill for a later key; the failed method hands nothing more over: its
\* record stays as it is until its caller calls a method again.
C13_FirstFailureStops ==
    [][ \A t \in Callers :
          /\ SendFailed(tasks'[t]) => StoppedAtFailure(t)'
          /\ tasks[t].pc = "sending" /\ tasks'[t].pc = "failed"
             => /\ tasks'[t].err = "TransportError"
                /\ tasks'[t].sent = tasks[t].sent
                /\ tasks'[t].fills = tasks[t].fills
          /\ SendFailed(tasks[t]) /\ tasks'[t] # tasks[t]
             => /\ tasks'[t].op # "none"
                /\ Len(tasks'[t].fills) <= 1
                /\ \A n \in 1..Len(tasks'[t].sent) :
                     tasks'[t].sent[n].kind = "feature"
      ]_vars

C13_Witness ==
    \E t \in Callers :
        /\ tasks[t].op = "clearAllKeys"
        /\ SendFailed(tasks[t])
        /\ tasks[t].cell = 1
        /\ tasks[t].part = 1
        /\ Len(tasks[t].packets) = 3
        /\ Len(tasks[t].sent) = 5

\* the framer of caller t is at work or has returned
Framing(t) ==
    tasks[t].op = "generateFillImageWrites" /\ tasks[t].pc \in {"framing", "done"}

\* bytes 0, 1, 2..3, 4 and 5 of the header of every packet framed so far
HeaderFields ==
    \A t \in Callers : \A i \in 1..Len(tasks[t].packets) :
        LET tk == tasks[t]
            packet == tk.packets[i]
        IN  Framing(t) =>
              /\ packet[1] = 2
              /\ packet[2] = 1
              /\ packet[3] + 256 * packet[4] = i - 1
              /\ packet[5] = (IF i * Capacity >= Len(tk.byteBuffer) THEN 1 ELSE 0)
              /\ packet[6] = tk.keyIndex + 1

\* byte 3 of the header of every packet framed so far is 0x00
Byte3Reserved ==
    \A t \in Callers : \A i \in 1..Len(tasks[t].packets) :
        Framing(t) => tasks[t].packets[i][4] = 0

\* C14: every image packet for native key n and part p has byte0 = 0x02,
\* byte1 = 0x01, p little-endian in bytes 2..3, byte3 = 0x00, byte4 = 1 on
\* the last part and 0 otherwise, byte5 = n + 1, whatever the number of
\* parts.
C14_Header == HeaderFields /\ Byte3Reserved

\* the number of payload bytes the i-th packet of L encoded bytes carries
PayloadCount(i, L) == Min(Capacity, L - (i - 1) * Capacity)

\* C15: every packet the framer produces is packetLength bytes long: the
\* header of getFillImageCommandHeaderLength bytes, then the payload bytes
\* of its part, then zeros up to packetLength; every part but the final
\* one carries a full payload, the final one at least one byte.
C15_PacketLayout ==
    \A t \in Callers : \A i \in 1..Len(tasks[t].packets) :
        LET tk == tasks[t]
            packet == tk.packets[i]
            L == Len(tk.byteBuffer)
            count == PayloadCount(i, L)
            H == getFillImageCommandHeaderLength
        IN  Framing(t) =>
              /\ Len(packet) = packetLength
              /\ SubSeq(packet, 1, H)
                   = writeFillImageCommandHeader(tk.keyIndex, i - 1,
                                                 i * Capacity >= L)
              /\ count \in 1..Capacity
              /\ SubSeq(packet, H + 1, H + count)
                   = SubSeq(tk.byteBuffer, (i - 1) * Capacity + 1,
                            (i - 1) * Capacity + count)
              /\ \A j \in (H + count + 1)..packetLength : packet[j] = 0
              /\ count < Capacity => tk.remainingBytes = 0 /\ i = Len(tk.packets)
              /\ tk.remainingBytes = L - Min(L, Len(tk.packets) * Capacity)

C15_Witness ==
    \E t \in Callers :
        /\ Framing(t)
        /\ tasks[t].pc = "done"
        /\ Len(tasks[t].packets) = 2
        /\ Len(tasks[t].byteBuffer) = 3
        /\ tasks[t].packets[2][getFillImageCommandHeaderLength + 1] = 2
        /\ tasks[t].packets[2][packetLength] = 0

\* what the method has handed over for each of its fills is the beginning
\* of that fill's packet sequence, and all of it once the fill is over
SendsAsFramed(tk) ==
    \A f \in 1..Len(tk.fills) :
        LET handed == DataOf(TransferOf(tk, f))
        IN  /\ Len(handed) <= Len(WholeTransfer(tk, f))
            /\ handed = SubSeq(WholeTransfer(tk, f), 1, Len(handed))
            /\ FillOver(tk, f) => handed = WholeTransfer(tk, f)

\* C16: a step that handles an input report leaves the outbound side as it
\* is (no transport call, no change to a pending method), a step of an
\* outbound method leaves the key state and the events as they are, and
\* whatever reports were handled in between, a method hands over the
\* packets of its fills as framed, in order.
C16_Independent ==
    [][ /\ tracker' # tracker => outbound' = outbound
        /\ outbound' # outbound => tracker' = tracker
        /\ \A t \in Callers : SendsAsFramed(tasks'[t])
      ]_vars

C16_Witness ==
    /\ tasks["a"].op = "fillPanel"
    /\ tasks["a"].pc = "sending"
    /\ tasks["a"].cell = 1
    /\ tasks["a"].part = 1
    /\ keyState[0]
    /\ lastData = [i \in Slots |-> IF i = 1 THEN 2 ELSE 0]
    /\ events = << [type |-> "down", keyIndex |-> 0] >>

\* keyState is NUM_KEYS booleans that say, for every slot, whether the
\* report handled last has it pressed
TrackerMatches ==
    /\ DOMAIN keyState = Slots
    /\ \A k \in Slots : keyState[k] \in BOOLEAN
    /\ \A i \in Slots : keyState[transformKeyIndex(i)] = (lastData[i] # 0)

\* handling one report emits at most one event per key: down for a key
\* that was up, up for a key that was down, and the key state changes with
\* an event only
EventsToggle ==
    /\ \A n \in 1..Len(events') :
         LET e == events'[n]
         IN  /\ e.keyIndex \in Slots
             /\ e.type \in {"down", "up"}
             /\ e.type = "down" => ~keyState[e.keyIndex] /\ keyState'[e.keyIndex]
             /\ e.type = "up" => keyState[e.keyIndex] /\ ~keyState'[e.keyIndex]
             /\ \A m \in 1..Len(events') :
                  events'[m].keyIndex = e.keyIndex => m = n
    /\ \A k \in Slots :
         keyState'[k] # keyState[k] =>
             \E n \in 1..Len(events') : events'[n].keyIndex = k

\* C17: after any sequence of reports keyState holds NUM_KEYS booleans with
\* keyState[transformKeyIndex(i)] the pressed value of slot i in the last
\* report (all false before the first), and the events of every key
\* alternate down, up, down, ...: a key that is up (as every key is at the
\* start) can only emit down, a key that is down can only emit up.
C17_TrackerAlternates ==
    /\ []TrackerMatches
    /\ [][EventsToggle]_vars

C17_Witness ==
    /\ props.ROWS = 2
    /\ Len(events) = 2
    /\ events[1].type = "up"
    /\ events[2].type = "down"
    /\ \E i \in Slots : lastData[i] = 2 /\ keyState[transformKeyIndex(i)]
    /\ \E k \in Slots : ~keyState[k] /\ events[1].keyIndex = k

\* the positions of imageBuffer a fill reads: ICON_SIZE rows of
\* ICON_SIZE * 3 bytes from sourceOffset on, sourceStride apart
RegionRead(fill) ==
    { fill.sourceOffset + r * fill.sourceStride + c :
        r \in 0..(ICON_SIZE - 1), c \in 0..(ICON_SIZE * 3 - 1) }

\* C18: the fill fillPanel makes for the panel cell (row, col) addresses
\* the native key fillImage(row * KEY_COLUMNS + col) addresses, and reads
\* the region at offset row * stride * ICON_SIZE + col * ICON_SIZE * 3 with
\* stride = ICON_SIZE * 3 * KEY_COLUMNS, which lies inside the panel buffer
\* and shares no byte with the region of another cell; the regions of all
\* the cells make up the buffer.
C18_PanelAddressing ==
    \A t \in Callers :
        LET tk == tasks[t]
            stride == ICON_SIZE * 3 * KEY_COLUMNS
        IN  tk.op = "fillPanel" /\ Len(tk.buffer) = ICON_BYTES * NUM_KEYS =>
              /\ \A f \in 1..Len(tk.fills) :
                   LET row == (f - 1) \div KEY_COLUMNS
                       col == (f - 1) % KEY_COLUMNS
                   IN  /\ row \in 0..(KEY_ROWS - 1)
                       /\ tk.fills[f].keyIndex = FillTarget(row * KEY_COLUMNS + col)
                       /\ tk.fills[f].sourceStride = stride
                       /\ tk.fills[f].sourceOffset
                            = row * stride * ICON_SIZE + col * ICON_SIZE * 3
                       /\ Cardinality(RegionRead(tk.fills[f])) = ICON_BYTES
                       /\ RegionRead(tk.fills[f]) \subseteq 0..(Len(tk.buffer) - 1)
                       /\ \A g \in 1..Len(tk.fills) :
                            g # f => RegionRead(tk.fills[f])
                                       \cap RegionRead(tk.fills[g]) = {}
              /\ tk.pc = "done" =>
                   UNION {RegionRead(tk.fills[f]) : f \in 1..Len(tk.fills)}
                     = 0..(Len(tk.buffer) - 1)

C18_Witness ==
    \E t \in Callers :
        /\ tasks[t].op = "fillPanel"
        /\ tasks[t].pc = "done"
        /\ props.KEY_DIRECTION = "rtl"
        /\ ICON_SIZE = 2
        /\ Len(tasks[t].fills) = 4
        /\ tasks[t].fills[4].sourceOffset = 30
        /\ tasks[t].fills[4].keyIndex = 2

\* every payload byte of the packets is zero
AllBlack(packets) ==
    \A i \in 1..Len(packets) :
        \A j \in (getFillImageCommandHeaderLength + 1)..Len(packets[i]) :
            packets[i][j] = 0

\* the fills of the method that address the native key n
FillsOf(tk, n) == {f \in 1..Len(tk.fills) : tk.fills[f].keyIndex = n}

\* C19: a completed clearKey(k) handed the transport the packets, in the
\* order, that a completed fillColor(k, 0, 0, 0) handed it; clearAllKeys
\* fills the logical keys 0, 1, ... in that order, starting a key only
\* when the transfer of the previous one is complete and no send is
\* pending, and when it is done every native key has had exactly one
\* transfer, complete and all black.
C19_Clear ==
    /\ \A t, u \in Callers :
         /\ tasks[t].op = "clearKey" /\ tasks[t].pc = "done"
         /\ tasks[u].op = "fillColor" /\ tasks[u].pc = "done"
         /\ tasks[u].color = <<0, 0, 0>>
         /\ tasks[u].keyIndex = tasks[t].keyIndex
         => tasks[t].sent = tasks[u].sent
    /\ \A t \in Callers :
         LET tk == tasks[t]
         IN  tk.op = "clearAllKeys" =>
               /\ Len(tk.fills) = tk.cell + 1
               /\ \A f \in 1..Len(tk.fills) :
                    /\ tk.fills[f].keyIndex = ColorTarget(f - 1)
                    /\ FillOver(tk, f) =>
                         DataOf(TransferOf(tk, f)) = WholeTransfer(tk, f)
               /\ \A i, j \in 1..Len(tk.sent) :
                    i < j => tk.sent[i].fill <= tk.sent[j].fill
               /\ AllBlack(DataOf(tk.sent))
               /\ tk.pc = "encoding" => inflight[t] = 0
               /\ tk.pc = "done" =>
                    \A n \in Slots :
                        /\ Cardinality(FillsOf(tk, n)) = 1
                        /\ \A f \in FillsOf(tk, n) :
                             Len(TransferOf(tk, f))
                               = (encLen + Capacity - 1) \div Capacity

C19_Witness ==
    \E t, u \in Callers :
        /\ tasks[t].op = "clearAllKeys"
        /\ tasks[t].pc = "done"
        /\ Len(tasks[t].sent) = 2 * NUM_KEYS
        /\ tasks[u].op = "clearKey"
        /\ tasks[u].pc = "done"
        /\ tasks[u].keyIndex = 1
        /\ DataOf(tasks[u].sent) = DataOf(TransferOf(tasks[t], 2))

Finished(t) == tasks[t].pc \in {"done", "failed"}

\* an iteration of the framer's loop leaves fewer bytes, never less than
\* none, and the loop goes on only while bytes remain
LoopDecreases ==
    \A t \in Callers :
        tasks[t].pc = "framing" /\ tasks'[t] # tasks[t] =>
            IF tasks[t].remainingBytes > 0
            THEN /\ tasks'[t].pc = "framing"
                 /\ tasks'[t].remainingBytes < tasks[t].remainingBytes
                 /\ tasks'[t].remainingBytes >= 0
            ELSE tasks'[t].pc = "done"

\* a fill method that is done has handed over every packet of every fill
AllSentWhenDone ==
    \A t \in Callers :
        tasks[t].op \in ImageMethods /\ tasks[t].pc = "done" =>
            /\ inflight[t] = 0
            /\ \A f \in 1..Len(tasks[t].fills) :
                 DataOf(TransferOf(tasks[t], f)) = WholeTransfer(tasks[t], f)

\* C20: the framer's loop terminates for every encoded length (the bytes
\* that remain decrease with every iteration), and, every awaited encoder
\* call and transport send settling in the end, a pending fillColor,
\* fillImage, fillPanel, clearKey or clearAllKeys in the end is done,
\* having sent all its packets, or has failed.
C20_Terminates ==
    /\ [][LoopDecreases]_vars
    /\ []AllSentWhenDone
    /\ (tasks["a"].pc = "framing") ~> (tasks["a"].pc = "done")
    /\ (tasks["a"].op \in ImageMethods /\ Active("a")) ~> Finished("a")

C20_Witness ==
    /\ tasks["a"].op = "clearAllKeys"
    /\ tasks["a"].pc = "done"
    /\ Len(tasks["a"].fills) = NUM_KEYS
    /\ Len(tasks["a"].sent) = 2 * NUM_KEYS
    /\ encLen > Capacity

====
